---- MODULE Spec2Model ----
(***************************************************************************)
(* Model of the mock exam generator.                                       *)
(*                                                                         *)
(* Six programs are modelled; they never run together, and the last three  *)
(* have specifications of their own (SpecCli, SpecParser, SpecProgress):   *)
(*   "core"   - core/selector.py (QuestionSelector), core/persistence.py   *)
(*              (ProblemTracker) and the part of cli.py that calls them;   *)
(*   "store"  - core/persistence.py (ProblemTracker) called directly, as   *)
(*              main.py does for --reset-tracking and --show-stats;        *)
(*   "legacy" - generator.py (generate_mock_exam) over models.QuestionBank;*)
(*   "cli"    - cli.py, ExamGeneratorCLI.run, from the loaded topic map to  *)
(*              the generated exam, over the selector and the tracker;     *)
(*   "parser" - parser.py (parse_latex_questions) on one LaTeX text;       *)
(*   "progress" - persistence.py (load_progress) on one progress file.     *)
(* The variable program says which of them a behaviour is a run of.        *)
(***************************************************************************)
EXTENDS Integers, Sequences, FiniteSets, TLC

VARIABLES
    program,        \* "core", "store", "legacy", "cli", "parser" or "progress"
    \* ---- core: QuestionSelector / ProblemTracker -----------------------
    topics,         \* self.topics: dict in insertion order, Seq of [name, problems]
    tracker,        \* TRUE iff the selector was built with a ProblemTracker
    used,           \* ProblemTracker._used_problems (set of problem ids)
    doc,            \* the tracking file: [exists, shape, used_problems, last_updated]
    seed,           \* QuestionSelector.seed (NoSeed = None)
    rng,            \* state of random.Random(seed); NoSeed when the global random is used
    pc,             \* position of the caller / of select_questions
    num_questions,  \* argument of the running select_questions call
    selected,       \* local list `selected` of select_questions
    covIdx,         \* position of the coverage loop in available_topics
    retry,          \* parity of the fill iterations that added nothing since the last append
    err,            \* the ValueError raised by the last call ("" if none)
    markIdx,        \* position of mark_multiple_as_used in its list
    instance,       \* 1 = first selector object, 2 = second selector built with the same arguments
    calls,          \* number of select_questions calls made on the current selector
    log,            \* results a caller of a seeded selector keeps: Seq of [n, used, err, result]
    log1,           \* the log of selector 1, kept when selector 2 is built
    now,            \* datetime.now(), as a counter
    writes,         \* number of times _save has run
    op,             \* the last ProblemTracker call of the store program: [name, id, outcome, raised]
    \* ---- legacy: QuestionBank / generate_mock_exam ----------------------
    bank,           \* QuestionBank._questions: Seq of [topic, done, last_seen]
    exam,           \* Exam.questions of the last call, as the set of their indices in bank
    lerr,           \* the ValueError raised by the last generate_mock_exam ("" if none)
    lcall,          \* the last call: [n, one_per_topic, reset]
    exams,          \* number of generate_mock_exam calls made
    \* ---- cli: ExamGeneratorCLI.run --------------------------------------
    cli,            \* the run: [phase, n, before, summary]
    \* ---- parser / progress ----------------------------------------------
    latex,          \* latex_text, as the sequence of its marked parts
    questions,      \* the list parse_latex_questions returned: Seq of [id, text, solution]
    progress        \* the progress file and the load_progress call: [exists, shape, entries, raised]

coreVars == <<topics, tracker, used, doc, seed, rng, pc, num_questions, selected,
              covIdx, retry, err, markIdx, instance, calls, log, log1>>
legacyVars == <<bank, exam, lerr, lcall, exams>>
toolVars == <<latex, questions, progress>>
vars == <<program, coreVars, legacyVars, now, writes, op, cli, toolVars>>

(***************************************************************************)
(* Bounds of the model.                                                    *)
(***************************************************************************)
MaxTopics == 2
MaxUnits == 3
NumSeeds == 1
MaxCalls == 1
MaxQuestions == 3
MaxExams == 2
MaxLegacyTopics == 2
MaxWrites == 2
MaxParts == 4
MaxLabel == 2

NoSeed == -1
NoPath == 0
NoTime == -1
RngMod == 16

TopicNames == <<"A", "B", "C", "D">>
Texts == 1..MaxUnits
Seeds == 0..(NumSeeds - 1)
Counts == (-1)..(MaxUnits + 1)

(***************************************************************************)
(* Helpers on sequences.                                                   *)
(***************************************************************************)
Range(s) == {s[i] : i \in 1..Len(s)}

RECURSIVE SumLen(_)
SumLen(ts) == IF ts = <<>> THEN 0 ELSE Len(Head(ts).problems) + SumLen(Tail(ts))

RECURSIVE SeqsUpTo(_, _)
SeqsUpTo(S, n) ==
    IF n = 0 THEN {<<>>}
    ELSE LET shorter == SeqsUpTo(S, n - 1)
         IN  shorter \cup {Append(s, x) : s \in {t \in shorter : Len(t) = n - 1}, x \in S}

(***************************************************************************)
(* core/models.py: Problem.                                                *)
(***************************************************************************)
Problem(topic, text, file_path) == [topic |-> topic, text |-> text, file_path |-> file_path]

\* Problem.__eq__: equality by (topic, text), the file path is ignored
ProblemEq(p, q) == p.topic = q.topic /\ p.text = q.text

\* `candidate in selected` / `p in selected`: list membership through __eq__
InList(p, s) == \E i \in 1..Len(s) : ProblemEq(p, s[i])

(***************************************************************************)
(* core/persistence.py: ProblemTracker.                                    *)
(***************************************************************************)
\* hashlib.md5(text.encode()).hexdigest(), as an injective digest of the small text domain
Md5(text) == (text * 11 + 5) % 97

\* hexdigest()[:8]: the leading part of the digest
Md5Prefix(text) == Md5(text) \div 4

_get_problem_id(p) ==
    IF p.file_path # NoPath
    THEN [path |-> p.file_path, hash |-> Md5Prefix(p.text)]
    ELSE [path |-> NoPath, hash |-> Md5(p.text)]

is_used(p) == _get_problem_id(p) \in used

RECURSIVE get_unused_problems(_)
get_unused_problems(problems) ==
    IF problems = <<>> THEN <<>>
    ELSE IF ~is_used(Head(problems))
         THEN <<Head(problems)>> \o get_unused_problems(Tail(problems))
         ELSE get_unused_problems(Tail(problems))

\* shapes of an existing tracking file, by what _load does with it:
\*   "object"     json.load gives a dict; "used_problems" is a list of identifiers
\*                (or the key is missing: data.get gives [])
\*   "iterable"   a dict whose "used_problems" is another iterable of hashable
\*                values (a string, a dict, a list of numbers)
\*   "not_list"   a dict whose "used_problems" cannot be made a set (null, a
\*                number, a list of lists): set(...) raises TypeError
\*   "not_object" valid JSON that is not a dict: data.get raises AttributeError
\*   "invalid"    not JSON (also an empty or truncated file): json.load raises
\*   "unreadable" open() raises (a directory, no permission)
LoadableShapes == {"object", "iterable"}
CorruptShapes == {"not_list", "not_object", "invalid", "unreadable"}

\* ProblemTracker.__init__ raises: never, _load catches every Exception
LoadRaises(d) == FALSE

\* ProblemTracker._load: the used set a tracker starts with, given the file
Load(d) == IF d.exists /\ d.shape \in LoadableShapes THEN d.used_problems ELSE {}

(***************************************************************************)
(* core/selector.py: QuestionSelector.                                     *)
(***************************************************************************)
prefer_unused == TRUE

\* variant: the filter `if problems` is missing
AvailableFrom_All(ts) == ts

\* available_topics = [topic for topic, problems in self.topics.items() if problems]
RECURSIVE AvailableFrom(_)
AvailableFrom(ts) ==
    IF ts = <<>> THEN <<>>
    ELSE IF Head(ts).problems # <<>>
         THEN <<Head(ts)>> \o AvailableFrom(Tail(ts))
         ELSE AvailableFrom(Tail(ts))

\* variant: the topics are walked from the last to the first
available_topics_Reversed ==
    [i \in 1..Len(AvailableFrom(topics)) |->
        AvailableFrom(topics)[Len(AvailableFrom(topics)) + 1 - i]]

available_topics == AvailableFrom(topics)

num_topics == Len(available_topics)

\* variant: the total is one too large
_get_total_available_questions_Off == SumLen(topics) + 1

_get_total_available_questions == SumLen(topics)

\* variant: the tracker is not consulted
candidate_problems_All(problems) == problems

\* candidate_problems of both passes
candidate_problems(problems) ==
    IF tracker /\ prefer_unused /\ get_unused_problems(problems) # <<>>
    THEN get_unused_problems(problems)
    ELSE problems

\* random.Random(seed): the generator state after seeding
SeedRng(s) == (s * 7 + 1) % RngMod

\* one step of the generator
RngNext(r) == (r * 5 + 3) % RngMod

\* the index (1-based) that rng.choice takes in a sequence of length n, from state r
RngIndex(r, n) == ((RngNext(r) \div 2) % n) + 1

\* variant: the seed is ignored and the process-global generator is used
NewRng_Global(s) == NoSeed

\* self._rng of a new selector
NewRng(s) == IF s # NoSeed THEN SeedRng(s) ELSE NoSeed

\* self._rng.choice(seq) may return seq[i]: the seeded generator fixes i,
\* the process-global generator (seed None) may give any index
MayChoose(r, n, i) == i \in 1..n /\ (r # NoSeed => i = RngIndex(r, n))

AfterChoice(r) == IF r # NoSeed THEN RngNext(r) ELSE r

(***************************************************************************)
(* Initial states of the core program: a topic map as the loader or a      *)
(* test builds it, a tracking file left by earlier runs, a selector.       *)
(***************************************************************************)
\* the texts of one topic, named in the order of their first occurrence;
\* a text that occurs twice gives two units that are equal by identity
TextLists ==
    {s \in SeqsUpTo(Texts, MaxUnits) :
        \A i \in 1..Len(s) : \E j \in 0..(i - 1) : s[i] <= 1 + (IF j = 0 THEN 0 ELSE s[j])}

\* a map loaded from files (the one a tracker is used with) has one problem per
\* file; a map built in memory, as in the selector tests, has no file paths
MkProblems(name, texts, firstPath, withPaths) ==
    [k \in 1..Len(texts) |-> Problem(name, texts[k], IF withPaths THEN firstPath + k ELSE NoPath)]

RECURSIVE SumOfLens(_)
SumOfLens(f) == IF f = <<>> THEN 0 ELSE Len(Head(f)) + SumOfLens(Tail(f))

TopicMaps(withPaths) ==
    UNION {
        {[i \in 1..nt |-> [name |-> TopicNames[i],
                           problems |-> MkProblems(TopicNames[i], f[i], (i - 1) * MaxUnits,
                                                   withPaths)]]
            : f \in {g \in [1..nt -> TextLists] : SumOfLens(g) <= MaxUnits}}
        : nt \in 0..MaxTopics}

AllProblems(ts) == UNION {Range(ts[i].problems) : i \in 1..Len(ts)}

BankIds(ts) == {_get_problem_id(p) : p \in AllProblems(ts)}

AbsentDoc == [exists |-> FALSE, shape |-> "object", used_problems |-> {}, last_updated |-> NoTime]

SavedDoc(u, t) == [exists |-> TRUE, shape |-> "object", used_problems |-> u, last_updated |-> t]

\* a file that exists and is not what _save writes
OtherDoc(shape, u) == [exists |-> TRUE, shape |-> shape, used_problems |-> u, last_updated |-> NoTime]

NoCall == [n |-> 0, one_per_topic |-> FALSE, reset |-> FALSE]

NoId == [path |-> NoPath, hash |-> -1]

NoOp == [name |-> "none", id |-> NoId, outcome |-> "none", raised |-> FALSE]

\* no run of the cli
NoCli == [phase |-> "none", n |-> 0, before |-> {}, summary |-> <<>>]

\* no progress file
NoProgress == [exists |-> FALSE, shape |-> "object", entries |-> <<>>, raised |-> ""]

\* the programs that read no LaTeX text and no progress file
InitTools == latex = <<>> /\ questions = <<>> /\ progress = NoProgress

\* the programs that run the selector
CorePrograms == {"core", "cli"}

InitCore ==
    /\ program = "core"
    /\ tracker \in BOOLEAN
    /\ topics \in TopicMaps(tracker)
    /\ doc \in IF tracker
               THEN {AbsentDoc} \cup {SavedDoc(u, 0) : u \in SUBSET BankIds(topics)}
               ELSE {AbsentDoc}
    /\ used = Load(doc)
    /\ seed \in {NoSeed} \cup Seeds
    /\ rng = NewRng(seed)
    /\ pc = "idle"
    /\ num_questions = 0
    /\ selected = <<>>
    /\ covIdx = 0
    /\ retry = 0
    /\ err = ""
    /\ markIdx = 0
    /\ instance = 1
    /\ calls = 0
    /\ log = <<>>
    /\ log1 = <<>>
    /\ now = 1
    /\ writes = 0
    /\ op = NoOp
    /\ bank = <<>>
    /\ exam = {}
    /\ lerr = ""
    /\ lcall = NoCall
    /\ exams = 0
    /\ cli = NoCli
    /\ InitTools

(***************************************************************************)
(* QuestionSelector.select_questions, one action per check / loop step.    *)
(***************************************************************************)
LogEntry(n, e, result) == [n |-> n, used |-> used, err |-> e, result |-> result]

\* the caller of a seeded selector keeps what the call gave, to compare runs
Logged(n, e, result) == IF seed # NoSeed THEN Append(log, LogEntry(n, e, result)) ELSE log

\* the calls a caller makes.  cli.py builds a selector with the tracker for one
\* call (line 168); a selector without tracker gets at most MaxCalls calls, and
\* the second selector gets the calls of the first, in their order.  Counts
\* above total + 1 behave as total + 1 does.  In a run of the cli the call is
\* the one of _select_questions, with the number the prompt gave.
MayCall(n) ==
    /\ calls < (IF tracker THEN 1 ELSE MaxCalls)
    /\ n <= SumLen(topics) + 1
    /\ instance = 2 => calls < Len(log1) /\ n = log1[calls + 1].n
    /\ program = "cli" => cli.phase = "select" /\ n = cli.n

Raise(n, e) ==
    /\ pc' = "error"
    /\ err' = e
    /\ num_questions' = n
    /\ selected' = <<>>
    /\ covIdx' = 0
    /\ retry' = 0
    /\ log' = Logged(n, e, <<>>)

\* variant: the topic check comes before the count check
SelectQuestions_TopicsFirst(n) ==
    /\ program \in CorePrograms
    /\ pc \in {"idle", "done", "error", "marked"}
    /\ MayCall(n)
    /\ calls' = calls + 1
    /\ IF num_topics = 0 THEN Raise(n, "NoTopics")
       ELSE IF n <= 0 THEN Raise(n, "InvalidCount")
       ELSE IF n > _get_total_available_questions THEN Raise(n, "InsufficientPool")
       ELSE /\ pc' = "coverage"
            /\ err' = ""
            /\ num_questions' = n
            /\ selected' = <<>>
            /\ covIdx' = 1
            /\ retry' = 0
            /\ log' = log
    /\ UNCHANGED <<program, topics, tracker, used, doc, seed, rng, markIdx, instance,
                   log1, now, writes, op, legacyVars, cli, toolVars>>

\* lines 60-76: the three checks, then `selected = []`
SelectQuestions(n) ==
    /\ program \in CorePrograms
    /\ pc \in {"idle", "done", "error", "marked"}
    /\ MayCall(n)
    /\ calls' = calls + 1
    /\ IF n <= 0 THEN Raise(n, "InvalidCount")
       ELSE IF num_topics = 0 THEN Raise(n, "NoTopics")
       ELSE IF n > _get_total_available_questions THEN Raise(n, "InsufficientPool")
       ELSE /\ pc' = "coverage"
            /\ err' = ""
            /\ num_questions' = n
            /\ selected' = <<>>
            /\ covIdx' = 1
            /\ retry' = 0
            /\ log' = log
    /\ UNCHANGED <<program, topics, tracker, used, doc, seed, rng, markIdx, instance,
                   log1, now, writes, op, legacyVars, cli, toolVars>>

\* variant: the selector marks the chosen problem as used itself
CoveragePick_Marks(i) ==
    /\ program \in CorePrograms
    /\ pc = "coverage"
    /\ covIdx <= num_topics
    /\ Len(selected) < num_questions
    /\ LET cands == candidate_problems(available_topics[covIdx].problems)
       IN  /\ MayChoose(rng, Len(cands), i)
           /\ selected' = Append(selected, cands[i])
           /\ used' = IF tracker THEN used \cup {_get_problem_id(cands[i])} ELSE used
    /\ rng' = AfterChoice(rng)
    /\ covIdx' = covIdx + 1
    /\ retry' = retry
    /\ UNCHANGED <<program, topics, tracker, doc, seed, pc, num_questions, err,
                   markIdx, instance, calls, log, log1, now, writes, op, legacyVars, cli, toolVars>>

\* lines 79-97: one iteration of `for topic in available_topics` that picks problem i
CoveragePick(i) ==
    /\ program \in CorePrograms
    /\ pc = "coverage"
    /\ covIdx <= num_topics
    /\ Len(selected) < num_questions
    /\ LET cands == candidate_problems(available_topics[covIdx].problems)
       IN  /\ MayChoose(rng, Len(cands), i)
           /\ selected' = Append(selected, cands[i])
    /\ rng' = AfterChoice(rng)
    /\ covIdx' = covIdx + 1
    /\ retry' = retry
    /\ UNCHANGED <<program, topics, tracker, used, doc, seed, pc, num_questions, err,
                   markIdx, instance, calls, log, log1, now, writes, op, legacyVars, cli, toolVars>>

\* variant: the loop is left after the first pick
CoverageEnd_Early ==
    /\ program \in CorePrograms
    /\ pc = "coverage"
    /\ (covIdx > num_topics \/ Len(selected) >= 1)
    /\ pc' = "fill"
    /\ UNCHANGED <<program, topics, tracker, used, doc, seed, rng, num_questions, selected,
                   covIdx, retry, err, markIdx, instance, calls, log, log1, now, writes, op, legacyVars, cli, toolVars>>

\* lines 79-81: the coverage loop ends (topics exhausted, or the break)
CoverageEnd ==
    /\ program \in CorePrograms
    /\ pc = "coverage"
    /\ (covIdx > num_topics \/ Len(selected) >= num_questions)
    /\ pc' = "fill"
    /\ UNCHANGED <<program, topics, tracker, used, doc, seed, rng, num_questions, selected,
                   covIdx, retry, err, markIdx, instance, calls, log, log1, now, writes, op, legacyVars, cli, toolVars>>

\* lines 100-123: one iteration of the while loop that chooses topic t and candidate i
FillPick(t, i) ==
    /\ program \in CorePrograms
    /\ pc = "fill"
    /\ Len(selected) < num_questions
    /\ MayChoose(rng, num_topics, t)
    /\ LET cands == candidate_problems(available_topics[t].problems)
           candidate == cands[i]
       IN  /\ MayChoose(AfterChoice(rng), Len(cands), i)
           /\ selected' = IF ~InList(candidate, selected)
                          THEN Append(selected, candidate)
                          ELSE selected
           /\ retry' = IF ~InList(candidate, selected) THEN 0 ELSE 1 - retry
    /\ rng' = AfterChoice(AfterChoice(rng))
    /\ UNCHANGED <<program, topics, tracker, used, doc, seed, pc, num_questions, covIdx,
                   err, markIdx, instance, calls, log, log1, now, writes, op, legacyVars, cli, toolVars>>

\* lines 100, 125-126: the while condition fails, the list is returned
Return ==
    /\ program \in CorePrograms
    /\ pc = "fill"
    /\ Len(selected) >= num_questions
    /\ pc' = "done"
    /\ log' = Logged(num_questions, "", selected)
    /\ UNCHANGED <<program, topics, tracker, used, doc, seed, rng, num_questions, selected,
                   covIdx, retry, err, markIdx, instance, calls, log1, now, writes, op, legacyVars, cli, toolVars>>

(***************************************************************************)
(* cli.py, ExamGeneratorCLI._select_questions: the caller marks the result.*)
(***************************************************************************)
\* what a run of _save may do to the file: write it; fail in open(), which
\* leaves the file as it is; fail in json.dump after open(..., "w")
\* truncated the file, which leaves text that is not JSON
WriteOutcomes == {"written", "failed", "truncated"}

\* variant: the set is written as it was before the call changed it
_save_Stale(newUsed, outcome) ==
    CASE outcome = "written" -> SavedDoc(used, now)
      [] outcome = "failed" -> doc
      [] outcome = "truncated" -> OtherDoc("invalid", {})

\* ProblemTracker._save: the file after the call
_save(newUsed, outcome) ==
    CASE outcome = "written" -> SavedDoc(newUsed, now)
      [] outcome = "failed" -> doc
      [] outcome = "truncated" -> OtherDoc("invalid", {})

\* line 172: mark_multiple_as_used(selected) is entered; the cli's selector has no seed
MarkMultipleAsUsed ==
    /\ program \in CorePrograms
    /\ pc = "done"
    /\ tracker
    /\ seed = NoSeed
    /\ pc' = "marking"
    /\ markIdx' = 1
    /\ UNCHANGED <<program, topics, tracker, used, doc, seed, rng, num_questions, selected,
                   covIdx, retry, err, instance, calls, log, log1, now, writes, op, legacyVars, cli, toolVars>>

\* variant: the identifier is added and saved without the membership test
mark_as_used_Always(problem, outcome) ==
    /\ used' = used \cup {_get_problem_id(problem)}
    /\ doc' = _save(used \cup {_get_problem_id(problem)}, outcome)
    /\ now' = now + 1
    /\ writes' = writes + 1

\* ProblemTracker.mark_as_used(problem), lines 63-66; outcome = what its _save
\* does (not consulted when nothing is saved)
mark_as_used(problem, outcome) ==
    LET problem_id == _get_problem_id(problem)
    IN  IF problem_id \notin used
        THEN /\ used' = used \cup {problem_id}
             /\ doc' = _save(used \cup {problem_id}, outcome)
             /\ now' = now + 1
             /\ writes' = writes + 1
        ELSE /\ outcome = "written"
             /\ UNCHANGED <<used, doc, now, writes>>

\* one iteration of mark_multiple_as_used: mark_as_used(selected[markIdx])
MarkAsUsed(outcome) ==
    /\ program \in CorePrograms
    /\ pc = "marking"
    /\ markIdx <= Len(selected)
    /\ mark_as_used(selected[markIdx], outcome)
    /\ markIdx' = markIdx + 1
    /\ pc' = IF markIdx = Len(selected) THEN "marked" ELSE "marking"
    /\ UNCHANGED <<program, topics, tracker, seed, rng, num_questions, selected, covIdx, retry,
                   err, instance, calls, log, log1, op, legacyVars, cli, toolVars>>

\* tests/test_selector.py, test_reproducibility_with_seed: a second
\* QuestionSelector(topics, seed=seed) is built with the arguments of the first
NewSelector ==
    /\ program \in CorePrograms
    /\ instance = 1
    /\ seed # NoSeed
    /\ pc \in {"done", "error"}
    /\ instance' = 2
    /\ log1' = log
    /\ log' = <<>>
    /\ calls' = 0
    /\ rng' = NewRng(seed)
    /\ pc' = "idle"
    /\ num_questions' = 0
    /\ selected' = <<>>
    /\ covIdx' = 0
    /\ retry' = 0
    /\ err' = ""
    /\ markIdx' = 0
    /\ UNCHANGED <<program, topics, tracker, used, doc, seed, now, writes, op, legacyVars, cli, toolVars>>

NextCore ==
    \/ \E n \in Counts : SelectQuestions(n)
    \/ \E i \in 1..MaxUnits : CoveragePick(i)
    \/ CoverageEnd
    \/ \E t \in 1..MaxTopics, i \in 1..MaxUnits : FillPick(t, i)
    \/ Return
    \/ MarkMultipleAsUsed
    \/ \E outcome \in WriteOutcomes : MarkAsUsed(outcome)
    \/ NewSelector

(***************************************************************************)
(* Store program: a ProblemTracker that is constructed on a tracking file  *)
(* and then called directly (main.py lines 29-48, and any other caller).   *)
(***************************************************************************)
\* a text whose hexdigest()[:8] is that of text 2, while the whole digest differs
CollidingText == 37

\* the units the store is asked to mark: one built without a file path, the
\* others loaded from files; the first two again under another topic; and a
\* unit of the file of text 2 whose text collides with text 2
StoreProblems ==
    {Problem(TopicNames[1], k, IF k = 1 THEN NoPath ELSE k) : k \in Texts}
        \cup {Problem(TopicNames[2], k, IF k = 1 THEN NoPath ELSE k) : k \in 1..2}
        \cup {Problem(TopicNames[1], CollidingText, 2)}

\* units the store is only asked about: they differ from a unit above in the
\* file path alone (another file, a file instead of none, none instead of a
\* file) or in the text alone
IdentityProbes ==
    {Problem(TopicNames[1], 2, 3), Problem(TopicNames[1], 1, 2),
     Problem(TopicNames[1], 2, NoPath), Problem(TopicNames[1], 3, 2)}

StoreIds == {_get_problem_id(p) : p \in StoreProblems}

\* an element that set(...) takes from a "used_problems" value that is no list
\* of identifiers (a character of a string, a key of a dict, a number)
GarbageId == [path |-> NoPath, hash |-> -2]

\* the tracking file a store may be constructed on
StoreDocs ==
    {AbsentDoc}
        \cup {SavedDoc(u, 0) : u \in SUBSET StoreIds}
        \cup {OtherDoc(shape, {}) : shape \in CorruptShapes}
        \cup {OtherDoc("iterable", {GarbageId})}

InitStore ==
    /\ program = "store"
    /\ doc \in StoreDocs
    /\ used = {}
    /\ pc = "new"
    /\ now = 1
    /\ writes = 0
    /\ op = NoOp
    /\ topics = <<>>
    /\ tracker = TRUE
    /\ seed = NoSeed
    /\ rng = NoSeed
    /\ num_questions = 0
    /\ selected = <<>>
    /\ covIdx = 0
    /\ retry = 0
    /\ err = ""
    /\ markIdx = 0
    /\ instance = 1
    /\ calls = 0
    /\ log = <<>>
    /\ log1 = <<>>
    /\ bank = <<>>
    /\ exam = {}
    /\ lerr = ""
    /\ lcall = NoCall
    /\ exams = 0
    /\ cli = NoCli
    /\ InitTools

\* what the caller of a ProblemTracker method sees of the call
Called(name, id, outcome, raised) ==
    op' = [name |-> name, id |-> id, outcome |-> outcome, raised |-> raised]

storeFrame == <<program, topics, tracker, seed, rng, num_questions, selected, covIdx, retry,
                err, markIdx, instance, calls, log, log1, legacyVars, cli, toolVars>>

\* ProblemTracker.__init__, lines 23-25: _used_problems = set(), then _load()
Construct ==
    /\ program = "store"
    /\ pc = "new"
    /\ used' = Load(doc)
    /\ pc' = IF LoadRaises(doc) THEN "failed" ELSE "ready"
    /\ Called("construct", NoId, "none", LoadRaises(doc))
    /\ UNCHANGED <<doc, now, writes, storeFrame>>

\* variant: an exception of the write reaches the caller
SaveRaises_Propagates(outcome) == outcome \in {"failed", "truncated"}

\* _save raises: never, lines 53-54 catch every Exception and log it
SaveRaises(outcome) == FALSE

\* a direct call of mark_as_used(problem)
StoreMarkAsUsed(problem, outcome) ==
    /\ program = "store"
    /\ pc = "ready"
    /\ writes < MaxWrites
    /\ mark_as_used(problem, outcome)
    /\ IF _get_problem_id(problem) \notin used
       THEN Called("mark_as_used", _get_problem_id(problem), outcome, SaveRaises(outcome))
       ELSE Called("mark_as_used", _get_problem_id(problem), "none", FALSE)
    /\ UNCHANGED <<pc, storeFrame>>

\* variant: nothing is saved when the set is empty already
reset_IfUsed(outcome) ==
    /\ used' = {}
    /\ IF used # {}
       THEN doc' = _save({}, outcome) /\ now' = now + 1 /\ writes' = writes + 1
       ELSE UNCHANGED <<doc, now, writes>>

\* ProblemTracker.reset, lines 108-109: clear(), then _save()
reset(outcome) ==
    /\ used' = {}
    /\ doc' = _save({}, outcome)
    /\ now' = now + 1
    /\ writes' = writes + 1

\* a direct call of reset() (main.py line 33)
StoreReset(outcome) ==
    /\ program = "store"
    /\ pc = "ready"
    /\ writes < MaxWrites
    /\ reset(outcome)
    /\ Called("reset", NoId, outcome, SaveRaises(outcome))
    /\ UNCHANGED <<pc, storeFrame>>

\* a direct call of is_used(problem)
StoreIsUsed(problem) ==
    /\ program = "store"
    /\ pc = "ready"
    /\ Called("is_used", _get_problem_id(problem), "none", FALSE)
    /\ UNCHANGED <<used, doc, now, writes, pc, storeFrame>>

\* a direct call of get_unused_problems(problems)
StoreGetUnused ==
    /\ program = "store"
    /\ pc = "ready"
    /\ Called("get_unused_problems", NoId, "none", FALSE)
    /\ UNCHANGED <<used, doc, now, writes, pc, storeFrame>>

\* variant: reading the statistics empties the set
StoreGetStats_Clears ==
    /\ program = "store"
    /\ pc = "ready"
    /\ used' = {}
    /\ Called("get_stats", NoId, "none", FALSE)
    /\ UNCHANGED <<doc, now, writes, pc, storeFrame>>

\* a direct call of get_stats() (main.py lines 31 and 42)
StoreGetStats ==
    /\ program = "store"
    /\ pc = "ready"
    /\ Called("get_stats", NoId, "none", FALSE)
    /\ UNCHANGED <<used, doc, now, writes, pc, storeFrame>>

\* get_stats()["total_used"]
total_used == Cardinality(used)

NextStore ==
    \/ Construct
    \/ \E problem \in StoreProblems, outcome \in WriteOutcomes : StoreMarkAsUsed(problem, outcome)
    \/ \E outcome \in WriteOutcomes : StoreReset(outcome)
    \/ \E problem \in StoreProblems \cup IdentityProbes : StoreIsUsed(problem)
    \/ StoreGetUnused
    \/ StoreGetStats

(***************************************************************************)
(* Cli program: cli.py, ExamGeneratorCLI.run.  The selection itself is the *)
(* select_questions / mark_multiple_as_used of the core program.           *)
(***************************************************************************)
\* config.py: MAX_QUESTIONS
MAX_QUESTIONS == 50

\* what ProblemLoader.load_all_problems returns for a directory that exists:
\* the one topic "problems" with the units of the .tex files, possibly none
LoadedMaps == {ts \in TopicMaps(TRUE) : Len(ts) = 1}

InitCli ==
    /\ program = "cli"
    /\ tracker = TRUE
    /\ topics \in LoadedMaps
    /\ doc \in {AbsentDoc} \cup {SavedDoc(u, 0) : u \in SUBSET BankIds(topics)}
    /\ used = Load(doc)
    /\ cli = [phase |-> "start", n |-> 0, before |-> {}, summary |-> <<>>]
    /\ seed = NoSeed
    /\ rng = NoSeed
    /\ pc = "idle"
    /\ num_questions = 0
    /\ selected = <<>>
    /\ covIdx = 0
    /\ retry = 0
    /\ err = ""
    /\ markIdx = 0
    /\ instance = 1
    /\ calls = 0
    /\ log = <<>>
    /\ log1 = <<>>
    /\ now = 1
    /\ writes = 0
    /\ op = NoOp
    /\ bank = <<>>
    /\ exam = {}
    /\ lerr = ""
    /\ lcall = NoCall
    /\ exams = 0
    /\ InitTools

\* what a step of run that only moves on leaves alone
cliFrame == <<program, coreVars, legacyVars, now, writes, op, toolVars>>

\* run, lines 54-61: header, _load_problems, `if not topics: ... return`
RunLoad ==
    /\ program = "cli"
    /\ cli.phase = "start"
    /\ cli' = [cli EXCEPT !.phase = IF topics = <<>> THEN "no_problems" ELSE "stats"]
    /\ UNCHANGED cliFrame

\* run, lines 64-73: the statistics, and the offer to reset when something is used
AskReset(answer, outcome) ==
    /\ program = "cli"
    /\ cli.phase = "stats"
    /\ IF total_used > 0 /\ answer
       THEN reset(outcome)
       ELSE UNCHANGED <<used, doc, now, writes>>
    /\ cli' = [cli EXCEPT !.phase = "prompt"]
    /\ UNCHANGED <<program, topics, tracker, seed, rng, pc, num_questions, selected, covIdx,
                   retry, err, markIdx, instance, calls, log, log1, op, legacyVars, toolVars>>

\* run, lines 76-79: _prompt_num_questions returns a number in 1..MAX_QUESTIONS,
\* then the shuffle question; `before` keeps the used set the selection starts with
PromptNumQuestions(n) ==
    /\ program = "cli"
    /\ cli.phase = "prompt"
    /\ n >= 1
    /\ n <= MAX_QUESTIONS
    /\ n <= SumLen(topics) + 1
    /\ cli' = [cli EXCEPT !.phase = "select", !.n = n, !.before = used]
    /\ UNCHANGED cliFrame

\* _show_question_summary, lines 189-193: the Status column
StatusOf(problem) == IF is_used(problem) THEN "Used" ELSE "New"

\* run, line 85: the summary table of the list _select_questions returned
ShowQuestionSummary ==
    /\ program = "cli"
    /\ cli.phase = "select"
    /\ pc = "marked"
    /\ cli' = [cli EXCEPT !.phase = "summary",
                          !.summary = [i \in 1..Len(selected) |-> StatusOf(selected[i])]]
    /\ UNCHANGED cliFrame

\* what _generate_exam may do: write exam.tex and the PDF; raise from
\* ExamGenerator (template missing); write exam.tex and warn that the PDF
\* could not be compiled
GenerateOutcomes == {"generated", "latex_failed", "pdf_failed"}

\* variant: a failure takes the marks of this run back
GenerateExam_RollsBack(outcome) ==
    /\ program = "cli"
    /\ cli.phase = "summary"
    /\ cli' = [cli EXCEPT !.phase = outcome]
    /\ IF outcome = "generated"
       THEN UNCHANGED <<used, doc>>
       ELSE used' = cli.before /\ doc' = SavedDoc(cli.before, now)
    /\ UNCHANGED <<program, topics, tracker, seed, rng, pc, num_questions, selected, covIdx,
                   retry, err, markIdx, instance, calls, log, log1, now, writes, op,
                   legacyVars, toolVars>>

\* run, line 88: _generate_exam(selected, shuffle), lines 219-263
GenerateExam(outcome) ==
    /\ program = "cli"
    /\ cli.phase = "summary"
    /\ cli' = [cli EXCEPT !.phase = outcome]
    /\ UNCHANGED <<used, doc>>
    /\ UNCHANGED <<program, topics, tracker, seed, rng, pc, num_questions, selected, covIdx,
                   retry, err, markIdx, instance, calls, log, log1, now, writes, op,
                   legacyVars, toolVars>>

\* run raised: from _select_questions (line 179) or from _generate_exam (line 238)
RunRaised == program = "cli" /\ (pc = "error" \/ cli.phase = "latex_failed")

\* the steps of a run, in the order of run: lines 57-61, 64-73, 76-79, 82
\* (_select_questions: the selector's steps, then the marking), 85, 88
NextCli ==
    \/ RunLoad
    \/ \E answer \in BOOLEAN, outcome \in WriteOutcomes : AskReset(answer, outcome)
    \/ \E n \in 1..(MaxUnits + 1) : PromptNumQuestions(n)
    \/ \E n \in 1..(MaxUnits + 1) : SelectQuestions(n)
    \/ \E i \in 1..MaxUnits : CoveragePick(i)
    \/ CoverageEnd
    \/ \E t \in 1..MaxTopics, i \in 1..MaxUnits : FillPick(t, i)
    \/ Return
    \/ MarkMultipleAsUsed
    \/ \E outcome \in WriteOutcomes : MarkAsUsed(outcome)
    \/ ShowQuestionSummary
    \/ \E outcome \in GenerateOutcomes : GenerateExam(outcome)

\* a run of the cli
SpecCli == InitCli /\ [][NextCli]_vars

(***************************************************************************)
(* Legacy program: models.py (Question, QuestionBank) and generator.py.    *)
(***************************************************************************)
Question(topic, done, last_seen) == [topic |-> topic, done |-> done, last_seen |-> last_seen]


\* variant: every question counts as unsolved
get_unsolved_questions_All(b) == 1..Len(b)

\* QuestionBank.get_unsolved_questions, as indices into _questions
get_unsolved_questions(b) == {i \in 1..Len(b) : ~b[i].done}

\* variant: the reset leaves the questions as they are
reset_all_questions_Keeps(b) == b

\* QuestionBank.reset_all_questions
reset_all_questions(b) == [i \in 1..Len(b) |-> Question(b[i].topic, FALSE, NoTime)]

\* variant: one topic too many is reported
get_topics_Extra(b) == {b[i].topic : i \in 1..Len(b)} \cup {"Z"}

\* QuestionBank.get_topics (the sorted list, as a set)
get_topics(b) == {b[i].topic : i \in 1..Len(b)}

\* QuestionBank.get_questions_by_topic, as indices
get_questions_by_topic(b, topic) == {i \in 1..Len(b) : b[i].topic = topic}

\* variant: only last_seen is set
MarkDone_SeenOnly(b, sel, t) ==
    [i \in 1..Len(b) |-> IF i \in sel THEN Question(b[i].topic, b[i].done, t) ELSE b[i]]

\* `question.done = True; question.last_seen = current_time` for every selected question
MarkDone(b, sel, t) ==
    [i \in 1..Len(b) |-> IF i \in sel THEN Question(b[i].topic, TRUE, t) ELSE b[i]]

\* what random.sample(population, n) may return: n different elements (their
\* order in the list is not modelled)
Samples(population, n) == {s \in SUBSET population : Cardinality(s) = n}

\* a bank as main builds it (load_questions_from_latex, then load_progress);
\* topics are named in the order of their first occurrence, a question is
\* unsolved or was solved by an earlier run
LegacyBanks ==
    {[i \in 1..Len(s) |-> Question(TopicNames[s[i][1]], s[i][2], IF s[i][2] THEN 0 ELSE NoTime)]
        : s \in {r \in SeqsUpTo((1..MaxLegacyTopics) \X BOOLEAN, MaxQuestions) :
                    \A i \in 1..Len(r) :
                        \E j \in 0..(i - 1) : r[i][1] <= 1 + (IF j = 0 THEN 0 ELSE r[j][1])}}

InitLegacy ==
    /\ program = "legacy"
    /\ bank \in LegacyBanks
    /\ exam = {}
    /\ lerr = ""
    /\ lcall = NoCall
    /\ exams = 0
    /\ now = 1
    /\ writes = 0
    /\ op = NoOp
    /\ topics = <<>>
    /\ tracker = FALSE
    /\ doc = AbsentDoc
    /\ used = {}
    /\ seed = NoSeed
    /\ rng = NoSeed
    /\ pc = "idle"
    /\ num_questions = 0
    /\ selected = <<>>
    /\ covIdx = 0
    /\ retry = 0
    /\ err = ""
    /\ markIdx = 0
    /\ instance = 1
    /\ calls = 0
    /\ log = <<>>
    /\ log1 = <<>>
    /\ cli = NoCli
    /\ InitTools

LegacyRaise(n, opt, b, didReset, e) ==
    /\ lerr' = e
    /\ exam' = {}
    /\ bank' = b
    /\ lcall' = [n |-> n, one_per_topic |-> opt, reset |-> didReset]

LegacyReturn(n, opt, b, didReset, sel) ==
    /\ lerr' = ""
    /\ exam' = sel
    /\ bank' = MarkDone(b, sel, now)
    /\ lcall' = [n |-> n, one_per_topic |-> opt, reset |-> didReset]

\* generator.py lines 32-62: the default mode
GenerateDefault(n) ==
    LET needReset == Cardinality(get_unsolved_questions(bank)) < n
        b1 == IF needReset THEN reset_all_questions(bank) ELSE bank
        unsolved == get_unsolved_questions(b1)
    IN  IF Cardinality(unsolved) < n
        THEN LegacyRaise(n, FALSE, b1, needReset, "NotEnough")
        ELSE \E sel \in Samples(unsolved, n) : LegacyReturn(n, FALSE, b1, needReset, sel)

\* generator.py lines 86-94 and 99-103: unsolved_by_topic, as topic -> indices
unsolved_by_topic(b, afterReset) ==
    [t \in {u \in get_topics(b) :
                IF afterReset THEN get_questions_by_topic(b, u) # {}
                ELSE get_questions_by_topic(b, u) \cap get_unsolved_questions(b) # {}}
        |-> IF afterReset THEN get_questions_by_topic(b, t)
            ELSE get_questions_by_topic(b, t) \cap get_unsolved_questions(b)]

\* generator.py lines 65-132: the topic-exclusive mode
_generate_exam_one_per_topic(n) ==
    IF n > Cardinality(get_topics(bank))
    THEN LegacyRaise(n, TRUE, bank, FALSE, "TooManyForTopics")
    ELSE LET needReset == Cardinality(DOMAIN unsolved_by_topic(bank, FALSE)) < n
             b1 == IF needReset THEN reset_all_questions(bank) ELSE bank
             byTopic == unsolved_by_topic(b1, needReset)
         IN  IF Cardinality(DOMAIN byTopic) < n
             THEN LegacyRaise(n, TRUE, b1, needReset, "NotEnoughTopics")
             ELSE \E selected_topics \in Samples(DOMAIN byTopic, n) :
                  \E sel \in {c \in SUBSET (1..Len(b1)) :
                                /\ Cardinality(c) = n
                                /\ \A t \in selected_topics :
                                      Cardinality(c \cap byTopic[t]) = 1} :
                      LegacyReturn(n, TRUE, b1, needReset, sel)

\* generator.py lines 14-62: generate_mock_exam(question_bank, n, one_per_topic)
generate_mock_exam(n, one_per_topic) ==
    /\ program = "legacy"
    /\ exams < MaxExams
    /\ exams' = exams + 1
    /\ now' = now + 1
    /\ IF n <= 0
       THEN LegacyRaise(n, one_per_topic, bank, FALSE, "InvalidCount")
       ELSE IF one_per_topic THEN _generate_exam_one_per_topic(n)
       ELSE GenerateDefault(n)
    /\ UNCHANGED <<program, coreVars, writes, op, cli, toolVars>>

LegacyCounts == (-1)..(MaxQuestions + 1)

NextLegacy ==
    \E n \in LegacyCounts, one_per_topic \in BOOLEAN : generate_mock_exam(n, one_per_topic)

(***************************************************************************)
(* Parser program: parser.py, parse_latex_questions on one LaTeX text.     *)
(* The text is the sequence of its marked parts:                           *)
(*   "problem_env"    \begin{problem} ... \end{problem}                    *)
(*   "solution_env"   \begin{solution} ... \end{solution}                  *)
(*   "problem_head"   \subsection*{Problem N} and the text after it        *)
(*   "solution_head"  \subsection*{Solution N} and the text after it       *)
(*   "other_head"     \subsection*{Problem ...} without a number, and the  *)
(*                    text after it                                        *)
(* A text of a unit is named by the part it starts at and the part it ends *)
(* at: [at |-> i, to |-> j].                                               *)
(***************************************************************************)
Part(kind, label) == [kind |-> kind, label |-> label]

Parts ==
    {Part(k, 0) : k \in {"problem_env", "solution_env", "other_head"}}
        \cup {Part(k, l) : k \in {"problem_head", "solution_head"}, l \in 1..MaxLabel}

\* the empty string
NoText == [at |-> 0, to |-> 0]

\* Question(id, topic, text, solution) of models.py; id is the number in "topic_N"
ParsedQuestion(id, text, solution) == [id |-> id, text |-> text, solution |-> solution]

\* re.finditer(pattern, latex_text): the positions of the matches, in order
Matches(txt, kinds) == {i \in 1..Len(txt) : txt[i].kind \in kinds}

\* group(1) of \begin{problem}(.*?)\end{problem} or of the solution pattern
Inner(i) == [at |-> i, to |-> i]

\* the lookahead (?=\\subsection\*\{Problem|\Z) or (?=\\subsection\*\{Solution|\Z):
\* the text after the head at i runs to the next part of these kinds, or to the end
BodyAfter(txt, i, stops) ==
    LET later == {j \in Matches(txt, stops) : j > i}
    IN  [at |-> i, to |-> IF later = {} THEN Len(txt) ELSE (CHOOSE j \in later : \A k \in later : j <= k) - 1]

\* lines 46-51: re.search(solution_pattern, latex_text[solution_start:]), 0 if None
NextSolution(txt, i) ==
    LET sols == {j \in Matches(txt, {"solution_env"}) : j > i}
    IN  IF sols = {} THEN 0 ELSE CHOOSE j \in sols : \A k \in sols : j <= k

\* the elements of a set of numbers in ascending order: sorted(...), and the
\* order of re.finditer
RECURSIVE Ascending(_)
Ascending(S) ==
    IF S = {} THEN <<>>
    ELSE LET m == CHOOSE x \in S : \A y \in S : x <= y
         IN  <<m>> \o Ascending(S \ {m})

\* lines 35-72: the delimited form
ParseDelimited(txt) ==
    LET at == Ascending(Matches(txt, {"problem_env"}))
    IN  [idx \in 1..Len(at) |->
            ParsedQuestion(idx, Inner(at[idx]),
                           IF NextSolution(txt, at[idx]) = 0 THEN NoText
                           ELSE Inner(NextSolution(txt, at[idx])))]

\* variant: the first head with the label is kept
Occurrence_First(txt, kind, label) ==
    LET S == {i \in Matches(txt, {kind}) : txt[i].label = label}
    IN  CHOOSE i \in S : \A j \in S : i <= j

\* lines 98-104 and 110-116: `problems[problem_num] = problem_text` in the order
\* of the matches, so the last head with the label is the one kept
Occurrence(txt, kind, label) ==
    LET S == {i \in Matches(txt, {kind}) : txt[i].label = label}
    IN  CHOOSE i \in S : \A j \in S : i >= j

\* the keys of the dicts problems and solutions
Labels(txt, kind) == {txt[i].label : i \in Matches(txt, {kind})}

\* lines 86-136: the numbered-subsection form
_parse_subsection_format(txt) ==
    LET nums == Ascending(Labels(txt, "problem_head"))
    IN  [k \in 1..Len(nums) |->
            ParsedQuestion(
                nums[k],
                BodyAfter(txt, Occurrence(txt, "problem_head", nums[k]),
                          {"problem_head", "other_head"}),
                IF nums[k] \in Labels(txt, "solution_head")
                THEN BodyAfter(txt, Occurrence(txt, "solution_head", nums[k]),
                               {"solution_head"})
                ELSE NoText)]

\* line 29: r'\subsection*{Problem' in latex_text
HasProblemMarker(txt) == Matches(txt, {"problem_head", "other_head"}) # {}

\* variant: the delimited form is tried first
parse_latex_questions_DelimitedFirst(txt) ==
    IF ParseDelimited(txt) # <<>>
    THEN ParseDelimited(txt)
    ELSE _parse_subsection_format(txt)

\* lines 26-72
parse_latex_questions(txt) ==
    IF HasProblemMarker(txt) /\ _parse_subsection_format(txt) # <<>>
    THEN _parse_subsection_format(txt)
    ELSE ParseDelimited(txt)

InitParser ==
    /\ program = "parser"
    /\ latex \in SeqsUpTo(Parts, MaxParts)
    /\ questions = <<>>
    /\ progress = NoProgress
    /\ pc = "idle"
    /\ cli = NoCli
    /\ topics = <<>>
    /\ tracker = FALSE
    /\ doc = AbsentDoc
    /\ used = {}
    /\ seed = NoSeed
    /\ rng = NoSeed
    /\ num_questions = 0
    /\ selected = <<>>
    /\ covIdx = 0
    /\ retry = 0
    /\ err = ""
    /\ markIdx = 0
    /\ instance = 1
    /\ calls = 0
    /\ log = <<>>
    /\ log1 = <<>>
    /\ now = 1
    /\ writes = 0
    /\ op = NoOp
    /\ bank = <<>>
    /\ exam = {}
    /\ lerr = ""
    /\ lcall = NoCall
    /\ exams = 0

\* the call parse_latex_questions(latex_text, topic)
Parse ==
    /\ program = "parser"
    /\ pc = "idle"
    /\ questions' = parse_latex_questions(latex)
    /\ pc' = "parsed"
    /\ UNCHANGED <<program, topics, tracker, used, doc, seed, rng, num_questions, selected,
                   covIdx, retry, err, markIdx, instance, calls, log, log1, now, writes, op,
                   legacyVars, cli, latex, progress>>

NextParser == Parse

SpecParser == InitParser /\ [][NextParser]_vars

(***************************************************************************)
(* Progress program: persistence.py, load_progress on one progress file.   *)
(* A question of the bank is known by its position, which stands for its   *)
(* id.  Shapes of an existing progress file, by what load_progress does:   *)
(*   "object"             a dict whose "questions" (default []) is a list  *)
(*                        of dicts that have an "id"                       *)
(*   "invalid"            not JSON, or bytes that are not UTF-8:           *)
(*                        json.load / read raise a ValueError              *)
(*   "no_id"              an entry is a dict without "id": KeyError        *)
(*   "not_object"         valid JSON that is no dict: .get raises          *)
(*                        AttributeError                                   *)
(*   "questions_not_list" "questions" is a number, null, a string or a     *)
(*                        dict: TypeError                                  *)
(*   "entry_not_object"   an entry is a number, a string or a list:        *)
(*                        TypeError                                        *)
(*   "unreadable"         open() raises OSError (a directory, no access)   *)
(***************************************************************************)
ProgressShapes ==
    {"object", "invalid", "no_id", "not_object", "questions_not_list", "entry_not_object",
     "unreadable"}

\* lines 79-82: `except (json.JSONDecodeError, KeyError, ValueError)`
CaughtShapes == {"invalid", "no_id"}

\* the exception load_progress lets through ("" if it returns)
ProgressRaises(pr) ==
    IF ~pr.exists \/ pr.shape \in CaughtShapes \cup {"object"} THEN ""
    ELSE IF pr.shape = "not_object" THEN "AttributeError"
    ELSE IF pr.shape = "unreadable" THEN "OSError"
    ELSE "TypeError"

\* lines 61-63: progress_map; it is complete before a question is touched, and
\* every exception of the call comes before or while it is built
progress_map(pr) == IF pr.exists /\ pr.shape = "object" THEN pr.entries ELSE <<>>

\* lines 66-77: done and last_seen of the questions that have an entry; an
\* entry is <<position, done, last_seen>>, a later entry of an id replaces an
\* earlier one
RECURSIVE Apply(_, _)
Apply(b, entries) ==
    IF entries = <<>> THEN b
    ELSE LET e == Head(entries)
             b1 == IF e[1] \in 1..Len(b)
                   THEN [b EXCEPT ![e[1]] = Question(b[e[1]].topic, e[2], e[3])]
                   ELSE b
         IN  Apply(b1, Tail(entries))

\* load_progress(question_bank, file_path): the bank after the call
load_progress(b, pr) == Apply(b, progress_map(pr))

\* a bank of one topic, as a test or main builds it before load_progress
ProgressBanks ==
    {[i \in 1..Len(s) |-> Question(TopicNames[1], s[i], IF s[i] THEN 0 ELSE NoTime)]
        : s \in SeqsUpTo(BOOLEAN, MaxQuestions)}

\* what an entry may say of a question: done or not, last seen or not
EntryValues == {<<FALSE, NoTime>>, <<TRUE, 0>>, <<TRUE, NoTime>>}

\* the entries of a file, at most one for a question of the bank, in the
\* order of the bank
RECURSIVE EntryLists(_)
EntryLists(n) ==
    IF n = 0 THEN {<<>>}
    ELSE LET shorter == EntryLists(n - 1)
         IN  shorter \cup {Append(es, <<n, v[1], v[2]>>) : es \in shorter, v \in EntryValues}

ProgressFile(shape, entries) == [exists |-> TRUE, shape |-> shape, entries |-> entries, raised |-> ""]

InitProgress ==
    /\ program = "progress"
    /\ bank \in ProgressBanks
    /\ progress \in {NoProgress}
                      \cup {ProgressFile("object", es) : es \in EntryLists(Len(bank))}
                      \cup {ProgressFile(sh, es) : sh \in ProgressShapes \ {"object"},
                                                   es \in {<<>>} \cup {<<<<1, TRUE, 0>>>>}}
    /\ pc = "idle"
    /\ latex = <<>>
    /\ questions = <<>>
    /\ cli = NoCli
    /\ topics = <<>>
    /\ tracker = FALSE
    /\ doc = AbsentDoc
    /\ used = {}
    /\ seed = NoSeed
    /\ rng = NoSeed
    /\ num_questions = 0
    /\ selected = <<>>
    /\ covIdx = 0
    /\ retry = 0
    /\ err = ""
    /\ markIdx = 0
    /\ instance = 1
    /\ calls = 0
    /\ log = <<>>
    /\ log1 = <<>>
    /\ now = 1
    /\ writes = 0
    /\ op = NoOp
    /\ exam = {}
    /\ lerr = ""
    /\ lcall = NoCall
    /\ exams = 0

\* the call load_progress(bank, file_path)
LoadProgress ==
    /\ program = "progress"
    /\ pc = "idle"
    /\ bank' = load_progress(bank, progress)
    /\ progress' = [progress EXCEPT !.raised = ProgressRaises(progress)]
    /\ pc' = "loaded"
    /\ UNCHANGED <<program, topics, tracker, used, doc, seed, rng, num_questions, selected,
                   covIdx, retry, err, markIdx, instance, calls, log, log1, now, writes, op,
                   exam, lerr, lcall, exams, cli, latex, questions>>

NextProgress == LoadProgress

SpecProgress == InitProgress /\ [][NextProgress]_vars

Init == InitCore \/ InitStore \/ InitLegacy
Next == NextCore \/ NextStore \/ NextLegacy
Spec == Init /\ [][Next]_vars

(***************************************************************************)
(* The same program under fair scheduling: a running call keeps taking     *)
(* steps, and a random choice that is possible again and again is          *)
(* eventually made (fair random choice).                                   *)
(***************************************************************************)
Fairness ==
    /\ WF_vars(\E i \in 1..MaxUnits : CoveragePick(i))
    /\ WF_vars(CoverageEnd)
    /\ WF_vars(Return)
    /\ \A t \in 1..MaxTopics, i \in 1..MaxUnits : SF_vars(FillPick(t, i))

FairSpec == Init /\ [][Next]_vars /\ Fairness

(***************************************************************************)
(* Shorthands used by the properties.                                      *)
(***************************************************************************)
\* no two elements of the list are equal by identity (topic, text)
Distinct(s) == \A i, j \in 1..Len(s) : i # j => ~ProblemEq(s[i], s[j])

\* the step is the entry of a select_questions call (its checks)
CallStep == pc \in {"idle", "done", "error", "marked"} /\ pc' \in {"error", "coverage"}

\* the step belongs to select_questions (entry, coverage pass, fill pass, return)
SelectStep == CallStep \/ pc \in {"coverage", "fill"}

\* the problems of the topic called name
ProblemsOf(name) == UNION {Range(topics[k].problems) : k \in {j \in 1..Len(topics) : topics[j].name = name}}

\* no topic of the map holds two units that are equal by identity
BankDistinct == \A k \in 1..Len(topics) : Distinct(topics[k].problems)

\* positions in the topic map of the topics that have at least one unit
NonEmptyTopics == {k \in 1..Len(topics) : topics[k].problems # <<>>}

\* total number of units of the topic map
TotalUnits == SumLen(topics)

\* the list holds a unit of the topic at position k of the map
Covers(s, k) == \E j \in 1..Len(s) : \E p \in Range(topics[k].problems) : ProblemEq(s[j], p)

\* the step is a generate_mock_exam call
ExamStep == exams' = exams + 1

\* usage state of the legacy bank: done and last_seen of every question
Usage(b) == [i \in 1..Len(b) |-> <<b[i].done, b[i].last_seen>>]

(***************************************************************************)
(* C1: for every topic map, every used set of the tracker (or no tracker)  *)
(* and every count with 1 <= count <= total number of units, the call      *)
(* select_questions(count) returns a list of exactly count units, no two   *)
(* of them equal by identity (topic, text).  A call is in the coverage     *)
(* pass exactly when its count passed the three checks; the property is    *)
(* stated for the banks whose units are pairwise distinct, under fair      *)
(* random choice.                                                          *)
(***************************************************************************)
C1_ReturnsCountDistinct ==
    [](pc = "coverage" /\ seed = NoSeed /\ BankDistinct
         => <>(/\ pc = "done"
               /\ Len(selected) = num_questions
               /\ Distinct(selected)))

\* a list that is returned has the requested length and no two equal units, and
\* a count within 1..total is not rejected
C1_ReturnedListShape ==
    /\ pc = "done" => Len(selected) = num_questions /\ Distinct(selected)
    /\ pc = "error" /\ num_questions >= 1 => num_questions > _get_total_available_questions

(***************************************************************************)
(* C2: once select_questions has passed its checks, the fill pass          *)
(* terminates under fair random choice, for every bank and every used set, *)
(* also when a topic has some used and some unused units.  Stated for the  *)
(* banks whose units are pairwise distinct, where count <= total means     *)
(* that enough different units exist.                                      *)
(***************************************************************************)
C2_FillTerminates == (pc = "fill" /\ seed = NoSeed /\ BankDistinct) ~> (pc = "done")

(***************************************************************************)
(* C3: coverage.  If count is at least the number of topics that have      *)
(* units, the result of select_questions holds at least one unit of every  *)
(* topic that has units; generate_mock_exam in topic-exclusive mode with   *)
(* count equal to the number of topics returns exactly one question of     *)
(* every topic.                                                            *)
(***************************************************************************)
C3_Coverage ==
    /\ (program = "core" /\ pc = "done" /\ num_questions >= Cardinality(NonEmptyTopics))
          => \A k \in NonEmptyTopics : Covers(selected, k)
    /\ (program = "legacy" /\ lerr = "" /\ lcall.one_per_topic
          /\ lcall.n = Cardinality(get_topics(bank)))
          => \A t \in get_topics(bank) :
                Cardinality({i \in exam : bank[i].topic = t}) = 1

C3_Witness ==
    /\ program = "core"
    /\ pc = "done"
    /\ Cardinality(NonEmptyTopics) = 2
    /\ num_questions = 3

(***************************************************************************)
(* C4 (as claimed): when count exceeds the total number of units,          *)
(* select_questions fails with InsufficientPool and the usage store (its   *)
(* used set and its file) is as before the request.                        *)
(***************************************************************************)
C4_InsufficientPool ==
    [][CallStep /\ num_questions' > TotalUnits
         => pc' = "error" /\ err' = "InsufficientPool" /\ UNCHANGED <<used, doc>>]_vars

(***************************************************************************)
(* C4 (amended): when count exceeds the total number of units and at least *)
(* one topic has units, select_questions fails with InsufficientPool; the  *)
(* used set and the file of the usage store are as before the request, and *)
(* after a failed call mark_multiple_as_used is not reached.               *)
(***************************************************************************)
C4_InsufficientPoolAmended ==
    [][/\ (CallStep /\ num_questions' > TotalUnits /\ NonEmptyTopics # {})
            => pc' = "error" /\ err' = "InsufficientPool" /\ UNCHANGED <<used, doc>>
       /\ pc = "error" => pc' \notin {"marking", "marked"} /\ UNCHANGED <<used, doc>>]_vars

C4_Witness ==
    /\ pc = "error"
    /\ err = "InsufficientPool"
    /\ num_questions = TotalUnits + 1
    /\ tracker
    /\ used # {}
    /\ doc.exists

(***************************************************************************)
(* C5: generate_mock_exam in default mode with count greater than the      *)
(* number of questions of the bank fails with 'Not enough questions' and   *)
(* leaves done and last_seen of every question as they were.               *)
(***************************************************************************)
C5_FailedExamKeepsUsage ==
    [][ExamStep /\ ~lcall'.one_per_topic /\ lcall'.n > Len(bank)
         => lerr' = "NotEnough" /\ Usage(bank') = Usage(bank)]_vars

(***************************************************************************)
(* C6: select_questions and generate_mock_exam reject every count <= 0     *)
(* with InvalidCount, before every other check (also for an empty bank),   *)
(* and change no selection and no usage state.                             *)
(***************************************************************************)
C6_InvalidCount ==
    [][/\ (CallStep /\ num_questions' <= 0)
            => /\ pc' = "error" /\ err' = "InvalidCount" /\ selected' = <<>>
               /\ UNCHANGED <<used, doc, topics, rng>>
       /\ (ExamStep /\ lcall'.n <= 0)
            => lerr' = "InvalidCount" /\ exam' = {} /\ bank' = bank]_vars

C6_Witness ==
    /\ program = "legacy"
    /\ lerr = "InvalidCount"
    /\ lcall.n <= 0
    /\ bank = <<>>

(***************************************************************************)
(* C7: if no topic of the map has a unit, select_questions fails with      *)
(* NoTopics for every count >= 1; when some topics are empty and others    *)
(* are not, no unit of the result belongs to an empty topic, and a count   *)
(* equal to the number of non-empty topics gives one unit of each of them. *)
(***************************************************************************)
C7_NoTopics ==
    /\ (program = "core" /\ NonEmptyTopics = {} /\ num_questions >= 1)
          => pc = "error" /\ err = "NoTopics"
    /\ pc = "done"
          => \A j \in 1..Len(selected) :
                \E k \in NonEmptyTopics : selected[j].topic = topics[k].name
    /\ (pc = "done" /\ Cardinality(NonEmptyTopics) < Len(topics)
          /\ num_questions = Cardinality(NonEmptyTopics))
          => \A k \in NonEmptyTopics :
                Cardinality({j \in 1..Len(selected) : selected[j].topic = topics[k].name}) = 1

C7_Witness ==
    /\ pc = "done"
    /\ Len(topics) = 2
    /\ topics[1].problems = <<>>
    /\ topics[2].problems # <<>>
    /\ num_questions = 1

(***************************************************************************)
(* C8: select_questions is read-only on its inputs: on success and on      *)
(* failure no step of it changes the used set or the file of the usage     *)
(* store or the topic map; they change only while the caller marks.        *)
(***************************************************************************)
C8_SelectReadOnly ==
    [][/\ SelectStep => UNCHANGED <<used, doc, topics>>
       /\ (program = "core" /\ (used' # used \/ doc' # doc)) => pc = "marking"
       /\ topics' = topics]_vars

C8_Witness ==
    /\ pc = "marked"
    /\ selected # <<>>
    /\ doc.exists
    /\ doc.last_updated >= 1
    /\ doc.used_problems = used

AllUsed == \A p \in AllProblems(topics) : is_used(p)

C11_ExhaustedBankCompletes ==
    [](program = "core" /\ pc = "coverage" /\ tracker /\ seed = NoSeed /\ AllUsed
         => <>(/\ pc = "done"
               /\ Len(selected) = num_questions
               /\ Distinct(selected)))

\* C11 for the banks whose units are pairwise distinct by identity: the call
\* completes with count distinct units, reusing used ones
C11_ExhaustedDistinctBankCompletes ==
    [](program = "core" /\ pc = "coverage" /\ tracker /\ seed = NoSeed /\ AllUsed /\ BankDistinct
         => <>(/\ pc = "done"
               /\ Len(selected) = num_questions
               /\ Distinct(selected)
               /\ \A j \in 1..Len(selected) : is_used(selected[j])))

(***************************************************************************)
(* C12: mark_as_used is idempotent.  A call on a unit whose identifier is  *)
(* in the used set already changes neither the set, nor total_used, nor    *)
(* the document (its last_updated included), and runs no _save; a call     *)
(* that adds an identifier adds exactly that one and runs _save exactly    *)
(* once.  Stated for the direct call and for every iteration of            *)
(* mark_multiple_as_used.                                                  *)
(***************************************************************************)
MarkEffect(id) ==
    IF id \in used
    THEN UNCHANGED <<used, doc, writes>> /\ Cardinality(used') = Cardinality(used)
    ELSE used' = used \cup {id} /\ writes' = writes + 1

C12_MarkIdempotent ==
    [][/\ (program = "store" /\ op'.name = "mark_as_used") => MarkEffect(op'.id)
       /\ (program = "core" /\ pc = "marking")
            => MarkEffect(_get_problem_id(selected[markIdx]))]_vars

C12_Witness ==
    /\ program = "store"
    /\ op.name = "mark_as_used"
    /\ op.outcome = "none"
    /\ op.id \in used
    /\ writes = 1
    /\ doc = SavedDoc(used, now - 1)

(***************************************************************************)
(* C13 (as claimed): after reset() no unit is used, total_used is 0, _save *)
(* has run once more whatever the set was, and a store constructed on the  *)
(* document afterwards starts empty.                                       *)
(***************************************************************************)
ResetStep == program = "store" /\ op'.name = "reset"

C13_ResetClears ==
    [][ResetStep
         => /\ \A p \in StoreProblems : _get_problem_id(p) \notin used'
            /\ Cardinality(used') = 0
            /\ writes' = writes + 1
            /\ Load(doc') = {}]_vars

(***************************************************************************)
(* C13 (amended): after reset() no unit is used, total_used is 0 and _save *)
(* has run once more whatever the set was; if the write succeeded the      *)
(* document is the empty set stamped with the time of the call, and unless *)
(* the write failed in open() a store constructed on the document          *)
(* afterwards starts empty; if it failed there the document is unchanged.  *)
(***************************************************************************)
C13_ResetClearsAmended ==
    [][ResetStep
         => /\ \A p \in StoreProblems : _get_problem_id(p) \notin used'
            /\ Cardinality(used') = 0
            /\ writes' = writes + 1
            /\ op'.outcome = "written" => doc' = SavedDoc({}, now)
            /\ op'.outcome # "failed" => Load(doc') = {}
            /\ op'.outcome = "failed" => doc' = doc]_vars

C13_Witness ==
    /\ program = "store"
    /\ op.name = "reset"
    /\ op.outcome = "written"
    /\ used = {}
    /\ writes = 2
    /\ doc = SavedDoc({}, now - 1)

(***************************************************************************)
(* C14: the used set only grows.  No step of a program other than reset()  *)
(* removes an identifier from the used set: is_used, get_unused_problems   *)
(* and get_stats leave the set as it is, mark_as_used and                  *)
(* mark_multiple_as_used only add; reset() removes every identifier.       *)
(***************************************************************************)
C14_UsedOnlyGrows ==
    [][/\ ~ResetStep => used \subseteq used'
       /\ ResetStep => used' = {}
       /\ (program = "store" /\ op'.name \in {"is_used", "get_unused_problems", "get_stats"})
            => used' = used
       /\ (program = "core" /\ pc # "marking") => used' = used]_vars

C14_Witness ==
    /\ program = "store"
    /\ op.name = "is_used"
    /\ op.id \in used
    /\ writes = 2
    /\ Cardinality(used) >= 2

LastWriteLanded ==
    writes >= 1 /\ doc.exists /\ doc.shape = "object" /\ doc.last_updated = now - 1

WriteFailed == op'.outcome \in {"failed", "truncated"}

C16_FailureKeepsMemory ==
    [][/\ (program = "store" /\ op'.name = "mark_as_used" /\ WriteFailed)
            => /\ ~op'.raised
               /\ used' = used \cup {op'.id}
               /\ pc' = "ready"
               /\ \A p \in StoreProblems :
                     (_get_problem_id(p) \in used') <=> (is_used(p) \/ _get_problem_id(p) = op'.id)
       /\ (program = "store" /\ op'.name = "reset" /\ WriteFailed)
            => ~op'.raised /\ used' = {} /\ pc' = "ready"
       /\ (program = "core" /\ pc = "marking" /\ writes' # writes
             /\ doc' # SavedDoc(used', now))
            => /\ used' = used \cup {_get_problem_id(selected[markIdx])}
               /\ pc' = IF markIdx = Len(selected) THEN "marked" ELSE "marking"
               /\ markIdx' = markIdx + 1]_vars

C16_Witness ==
    /\ program = "store"
    /\ op.name = "mark_as_used"
    /\ op.outcome = "failed"
    /\ ~op.raised
    /\ op.id \in used
    /\ Load(doc) # used

(***************************************************************************)
(* C17: constructing the store never fails and fails open.  After          *)
(* ProblemTracker(path) has run, no exception has reached the caller; the  *)
(* used set is empty if the document is absent, and it is empty if the     *)
(* document exists and is not a JSON object with a list of identifiers     *)
(* under "used_problems" (not JSON, unreadable, wrong structure).          *)
(***************************************************************************)
C17_ConstructFailsOpen ==
    (program = "store" /\ op.name = "construct")
       => /\ ~op.raised
          /\ pc = "ready"
          /\ ~doc.exists => used = {}
          /\ (doc.exists /\ doc.shape # "object") => used = {}

\* C17 for the documents on which _load raises internally: the constructor
\* never fails, and an absent, unreadable, non-JSON or non-dict document and
\* a "used_problems" value that set() rejects give the empty set
C17_ConstructNeverRaises ==
    (program = "store" /\ op.name = "construct")
       => /\ ~op.raised
          /\ pc = "ready"
          /\ (~doc.exists \/ doc.shape \in CorruptShapes) => used = {}
          /\ (doc.exists /\ doc.shape = "object") => used = doc.used_problems

(***************************************************************************)
(* Shorthands for the legacy properties.                                   *)
(***************************************************************************)
\* the topics that occur in the bank
TopicsOf(b) == {b[i].topic : i \in 1..Len(b)}

\* the questions of the bank that are not done, as indices
Unsolved(b) == {i \in 1..Len(b) : ~b[i].done}

\* the topics that have a question that is not done
TopicsWithUnsolved(b) == {b[i].topic : i \in Unsolved(b)}

(***************************************************************************)
(* C18: topic-exclusive mode.  generate_mock_exam(bank, count,             *)
(* one_per_topic=True) with count greater than the number of topics fails  *)
(* and leaves every question as it was; when it succeeds the exam has      *)
(* exactly count questions, no two of the same topic.                      *)
(***************************************************************************)
C18_TopicExclusive ==
    [][(ExamStep /\ lcall'.one_per_topic /\ lcall'.n >= 1)
         => IF lcall'.n > Cardinality(TopicsOf(bank))
            THEN lerr' = "TooManyForTopics" /\ bank' = bank /\ exam' = {}
            ELSE lerr' = ""
                   => /\ Cardinality(exam') = lcall'.n
                      /\ \A i, j \in exam' : i # j => bank[i].topic # bank[j].topic]_vars

C18_Witness ==
    /\ program = "legacy"
    /\ lerr = ""
    /\ lcall.one_per_topic
    /\ lcall.n = 2
    /\ Cardinality(exam) = 2
    /\ Len(bank) = 3

(***************************************************************************)
(* C19: whole-pool recycling in topic-exclusive mode.  With                *)
(* 1 <= count <= number of topics the call succeeds.  If fewer than count  *)
(* topics have a question that is not done, the bank is reset and after    *)
(* the call exactly the count selected questions are done; otherwise there *)
(* is no reset, the selected questions were not done before, and every     *)
(* other question is as it was.                                            *)
(***************************************************************************)
C19_TopicExclusiveRecycles ==
    [][(ExamStep /\ lcall'.one_per_topic /\ lcall'.n >= 1
          /\ lcall'.n <= Cardinality(TopicsOf(bank)))
         => /\ lerr' = ""
            /\ Cardinality(exam') = lcall'.n
            /\ IF Cardinality(TopicsWithUnsolved(bank)) < lcall'.n
               THEN /\ lcall'.reset
                    /\ \A i \in 1..Len(bank) : bank'[i].done <=> i \in exam'
               ELSE /\ ~lcall'.reset
                    /\ \A i \in exam' : ~bank[i].done /\ bank'[i].done
                    /\ \A i \in (1..Len(bank)) \ exam' : bank'[i] = bank[i]]_vars

C19_Witness ==
    /\ program = "legacy"
    /\ lerr = ""
    /\ lcall.one_per_topic
    /\ lcall.reset
    /\ lcall.n = 2
    /\ Cardinality({i \in 1..Len(bank) : bank[i].done}) = 2
    /\ Len(bank) = 3

(***************************************************************************)
(* C20: recycling in the default mode.  generate_mock_exam(bank, count)    *)
(* with 1 <= count <= number of questions succeeds with count questions.   *)
(* If fewer than count questions are unsolved, all are reset and the       *)
(* number of unsolved questions afterwards is total - count; otherwise     *)
(* there is no reset, the selected questions were unsolved, and the number *)
(* of unsolved questions goes down by exactly count.                       *)
(***************************************************************************)
C20_DefaultRecycles ==
    [][(ExamStep /\ ~lcall'.one_per_topic /\ lcall'.n >= 1 /\ lcall'.n <= Len(bank))
         => /\ lerr' = ""
            /\ Cardinality(exam') = lcall'.n
            /\ IF Cardinality(Unsolved(bank)) < lcall'.n
               THEN /\ lcall'.reset
                    /\ Cardinality(Unsolved(bank')) = Len(bank) - lcall'.n
                    /\ Unsolved(bank') = (1..Len(bank)) \ exam'
               ELSE /\ ~lcall'.reset
                    /\ exam' \subseteq Unsolved(bank)
                    /\ Cardinality(Unsolved(bank')) = Cardinality(Unsolved(bank)) - lcall'.n
                    /\ Unsolved(bank') = Unsolved(bank) \ exam']_vars

C20_Witness ==
    /\ program = "legacy"
    /\ lerr = ""
    /\ ~lcall.one_per_topic
    /\ lcall.reset
    /\ lcall.n = 2
    /\ Len(bank) = 3
    /\ Cardinality(Unsolved(bank)) = 1
    /\ exams = 2

(***************************************************************************)
(* Shorthands for the parser properties.                                   *)
(***************************************************************************)
\* the positions of the parts of one kind in the text
PartsOfKind(kind) == {i \in 1..Len(latex) : latex[i].kind = kind}

\* the least element of a non-empty set of positions
Least(S) == CHOOSE i \in S : \A j \in S : i <= j

\* the greatest element of a non-empty set of positions
Greatest(S) == CHOOSE i \in S : \A j \in S : i >= j

\* the units are those of the delimited form: one per problem block, in
\* document order, numbered 1, 2, ...
DelimitedUnits ==
    /\ Len(questions) = Cardinality(PartsOfKind("problem_env"))
    /\ \A k \in 1..Len(questions) :
          /\ questions[k].id = k
          /\ questions[k].text.at \in PartsOfKind("problem_env")
          /\ Cardinality({i \in PartsOfKind("problem_env") : i < questions[k].text.at}) = k - 1

\* the units are those of the numbered form: one per problem label
NumberedUnits ==
    /\ Len(questions) = Cardinality({latex[i].label : i \in PartsOfKind("problem_head")})
    /\ \A k \in 1..Len(questions) :
          /\ questions[k].text.at \in PartsOfKind("problem_head")
          /\ questions[k].id = latex[questions[k].text.at].label

(***************************************************************************)
(* C21 (as claimed): parse_latex_questions tries the delimited form first; *)
(* for a text that holds delimited problem blocks and numbered 'Problem N' *)
(* subsections the result is the units of the delimited form.              *)
(***************************************************************************)
C21_DelimitedFirst ==
    (program = "parser" /\ pc = "parsed"
        /\ PartsOfKind("problem_env") # {} /\ PartsOfKind("problem_head") # {})
       => DelimitedUnits

(***************************************************************************)
(* C21 (amended): parse_latex_questions tries the numbered-subsection form *)
(* first and uses the delimited form only when the numbered form yields no *)
(* unit; for a text that holds both, the result is the units of the        *)
(* numbered form.                                                          *)
(***************************************************************************)
C21_NumberedFirst ==
    (program = "parser" /\ pc = "parsed")
       => IF PartsOfKind("problem_head") # {} THEN NumberedUnits ELSE DelimitedUnits

C21_Witness ==
    /\ program = "parser"
    /\ pc = "parsed"
    /\ PartsOfKind("problem_env") # {}
    /\ PartsOfKind("solution_env") # {}
    /\ PartsOfKind("problem_head") # {}
    /\ Len(questions) = 2

(***************************************************************************)
(* C22: pairing in the delimited form.  The units come in document order   *)
(* with the identifiers topic_1, topic_2, ...; the N-th problem block gets *)
(* the first solution block after it if that block comes before the next   *)
(* problem block, and the empty string otherwise.                          *)
(***************************************************************************)
C22_DelimitedPairing ==
    (program = "parser" /\ pc = "parsed" /\ PartsOfKind("problem_head") = {})
       => /\ DelimitedUnits
          /\ \A k \in 1..Len(questions) :
                LET i == questions[k].text.at
                    own == {j \in PartsOfKind("solution_env") :
                               /\ j > i
                               /\ ~\E q \in PartsOfKind("problem_env") : i < q /\ q < j}
                IN  IF own = {}
                    THEN questions[k].solution = NoText
                    ELSE questions[k].solution = [at |-> Least(own), to |-> Least(own)]

\* C22 where every problem block is followed by a solution block of its own:
\* N problem blocks give N units, each with the text of its block and of the
\* solution block that follows it
C22_PairedBlocks ==
    (program = "parser" /\ pc = "parsed" /\ PartsOfKind("problem_head") = {}
        /\ \A i \in PartsOfKind("problem_env") :
              i < Len(latex) /\ latex[i + 1].kind = "solution_env")
       => /\ DelimitedUnits
          /\ \A k \in 1..Len(questions) :
                questions[k].solution.at = questions[k].text.at + 1

NoProgressDocument ==
    ~progress.exists
        \/ progress.shape \in {"invalid", "no_id", "not_object", "questions_not_list",
                               "entry_not_object"}

C24_LoadProgressFailsOpen ==
    [][(program = "progress" /\ pc = "idle" /\ pc' = "loaded" /\ NoProgressDocument)
         => progress'.raised = "" /\ Usage(bank') = Usage(bank)]_vars

\* C24 without the shapes that raise: a missing file, text that is not JSON
\* and an entry without id are reported and change nothing; no call that
\* raises has changed a question
C24_LoadProgressKeepsBank ==
    [][(program = "progress" /\ pc = "idle" /\ pc' = "loaded")
         => /\ (~progress.exists \/ progress.shape \in {"invalid", "no_id"})
                  => progress'.raised = "" /\ Usage(bank') = Usage(bank)
            /\ progress'.raised # "" => Usage(bank') = Usage(bank)]_vars

(***************************************************************************)
(* C25: when the problems directory exists and yields no problem, run      *)
(* reports it and returns: it asks for no question count, runs no          *)
(* selection, raises nothing and leaves the usage store as it is.          *)
(***************************************************************************)
C25_NoProblemsHandled ==
    [][(program = "cli" /\ TotalUnits = 0)
         => /\ cli'.phase \in {"start", "stats", "no_problems"}
            /\ pc' = "idle"
            /\ ~RunRaised'
            /\ UNCHANGED <<used, doc>>]_vars

(***************************************************************************)
(* C26: order of the coverage pass.  With T topics that have units, the    *)
(* first min(count, T) elements of the list come one each from the first   *)
(* min(count, T) non-empty topics in the order of the topic map, element i *)
(* from the i-th of them; the pass stops when count units are chosen, so   *)
(* for count < T the later topics give nothing.                            *)
(***************************************************************************)
\* the position in the map of the i-th topic that has units
NthNonEmpty(i) ==
    CHOOSE k \in NonEmptyTopics : Cardinality({j \in NonEmptyTopics : j < k}) = i - 1

C26_CoverageOrder ==
    (program = "core" /\ pc \in {"fill", "done"})
       => LET T == Cardinality(NonEmptyTopics)
              m == IF num_questions < T THEN num_questions ELSE T
          IN  /\ Len(selected) >= m
              /\ \A i \in 1..m : selected[i].topic = topics[NthNonEmpty(i)].name
              /\ num_questions < T => Len(selected) = num_questions

C26_Witness ==
    /\ program = "core"
    /\ pc = "done"
    /\ Len(topics) = 2
    /\ Cardinality(NonEmptyTopics) = 2
    /\ num_questions = 1
    /\ selected[1].topic = topics[1].name

(***************************************************************************)
(* C27: the identity of the usage store depends on the file path and the   *)
(* text only.  After mark_as_used(u) the units with the file path and the  *)
(* text of u (with the text of u, when neither has a file path) are used,  *)
(* whatever their topic, and a unit that differs from u in the text or in  *)
(* the file path answers is_used as it did before.                         *)
(***************************************************************************)
SameSource(u, v) == u.file_path = v.file_path /\ u.text = v.text

C27_IdentityBySourceAndText ==
    [][\A u \in StoreProblems :
          (program = "store" /\ op'.name = "mark_as_used" /\ op'.id = _get_problem_id(u))
             => \A v \in StoreProblems \cup IdentityProbes :
                   IF SameSource(u, v)
                   THEN _get_problem_id(v) \in used'
                   ELSE (_get_problem_id(v) \in used') <=> is_used(v)]_vars

\* C27 for the topic alone: two units with the same file path and the same
\* text always answer is_used alike, and marking one of them marks the other
C27_TopicNeverCounts ==
    \A u, v \in StoreProblems \cup IdentityProbes :
        (program = "store" /\ SameSource(u, v)) => (is_used(u) <=> is_used(v))

(***************************************************************************)
(* C28: freshness across runs in the legacy default mode.  After a         *)
(* successful generate_mock_exam call every question of its exam is done   *)
(* and has the time of the call as last_seen; a question that was done     *)
(* before the call, and so a question of the exam of the call before it,   *)
(* is in the exam only if the call reset the whole pool, and the call      *)
(* resets only when fewer questions than requested were unsolved.          *)
(***************************************************************************)
C28_FreshAcrossRuns ==
    [][(program = "legacy" /\ ExamStep /\ lerr' = "" /\ ~lcall'.one_per_topic)
          => /\ \A i \in exam' : bank'[i].done /\ bank'[i].last_seen = now
             /\ (\E i \in exam' : bank[i].done) => lcall'.reset
             /\ (exams >= 1 /\ lerr = "" /\ ~lcall.one_per_topic /\ exam \cap exam' # {})
                   => lcall'.reset
             /\ lcall'.reset => Cardinality(get_unsolved_questions(bank)) < lcall'.n]_vars

\* the second of two default-mode exams on one bank, drawn after a reset
C28_Witness ==
    /\ program = "legacy"
    /\ exams = 2
    /\ lerr = ""
    /\ ~lcall.one_per_topic
    /\ lcall.reset
    /\ exam # {}
    /\ \E i \in 1..Len(bank) : i \notin exam /\ ~bank[i].done

\* identifiers of the units of a list
IdsOf(s) == {_get_problem_id(s[j]) : j \in 1..Len(s)}

(***************************************************************************)
(* C29 (as claimed): when _select_questions of the cli has returned, every *)
(* selected unit is used in memory and in the persisted document.          *)
(***************************************************************************)
C29_SelectedPersisted ==
    (program = "cli" /\ pc = "marked")
       => IdsOf(selected) \subseteq used /\ IdsOf(selected) \subseteq Load(doc)

(***************************************************************************)
(* C29 (amended): in a run of the cli mark_multiple_as_used is entered on  *)
(* the selected list right after select_questions has returned it, and the *)
(* exam is generated only after the marking is over.  When                 *)
(* _select_questions returns, the used set in memory is the set the        *)
(* selection started with plus the selected units, and the document holds  *)
(* them when the write of the latest _save succeeded (or none was needed). *)
(* A failure of LaTeX generation or of PDF compilation changes neither the *)
(* used set nor the document, and neither does a step of select_questions, *)
(* a failed one included.                                                  *)
(***************************************************************************)
C29_MarksBeforeGeneration ==
    [][program = "cli"
          => /\ pc = "done" => pc' = "marking" /\ selected' = selected /\ cli' = cli
             /\ pc' = "marked"
                   => /\ used' = cli'.before \cup IdsOf(selected')
                      /\ (writes' = 0 \/ LastWriteLanded')
                            => IdsOf(selected') \subseteq Load(doc')
             /\ (cli.phase = "summary" /\ cli'.phase \in GenerateOutcomes)
                   => pc = "marked" /\ used' = used /\ doc' = doc
             /\ (SelectStep \/ pc' = "error") => used' = used /\ doc' = doc]_vars

\* LaTeX generation failed after two units were marked, and the marks are kept
C29_Witness ==
    /\ program = "cli"
    /\ cli.phase = "latex_failed"
    /\ pc = "marked"
    /\ Len(selected) = 2
    /\ cli.before = {}
    /\ LastWriteLanded
    /\ IdsOf(selected) \subseteq Load(doc)

(***************************************************************************)
(* C30: in the question summary of a run of the cli the status of a        *)
(* selected unit is "New" if and only if the unit was not used before the  *)
(* selection of this run, and "Used" if and only if it was.                *)
(***************************************************************************)
C30_SummaryStatus ==
    (program = "cli" /\ cli.phase = "summary")
       => \A j \in 1..Len(selected) :
             /\ cli.summary[j] = "New" <=> _get_problem_id(selected[j]) \notin cli.before
             /\ cli.summary[j] = "Used" <=> _get_problem_id(selected[j]) \in cli.before

\* what the summary shows: every selected unit is "Used", the marking came first
C30_SummaryAlwaysUsed ==
    (program = "cli" /\ cli.phase \notin {"start", "no_problems", "stats", "prompt", "select"})
       => Len(cli.summary) = Len(selected) /\ \A j \in 1..Len(selected) : cli.summary[j] = "Used"

====
